---------------------------- MODULE Spec2Model ----------------------------
(***************************************************************************)
(* A model of the radix-spline learned index of src/src/lib.rs: the        *)
(* Builder (new, with_error, push/insert, add_key_to_spline, build) and    *)
(* the query path of RadixSpline (spline_segment, get_estimated_position,  *)
(* search_bound).                                                          *)
(*                                                                         *)
(* Numbers.  Keys are u32; the model draws them from 0..MaxKey, where no   *)
(* u32 operation of the code wraps except the subtractions that the model  *)
(* guards explicitly.  The y values are f32 in the code.  max_error is     *)
(* drawn from integers, so every y the builder stores (a rank, or a rank   *)
(* plus or minus max_error) is a small integer, exactly representable in   *)
(* f32, and the products and differences of orient are exact.  The one     *)
(* inexact f32 operation is the interpolation quotient of                  *)
(* get_estimated_position; the model keeps its value as the exact rational *)
(* num/den and takes the floor of the `as usize` casts on that rational.   *)
(*                                                                         *)
(* Build profile.  The model is the debug build: debug_assert! and the     *)
(* overflow checks of integer arithmetic panic.  A panic ends the program  *)
(* (phase = "panicked").                                                   *)
(*                                                                         *)
(* Vec<T> is a sequence; the code's zero-based index i is At(v, i).        *)
(***************************************************************************)
EXTENDS Integers, Sequences, FiniteSets, TLC

\* ------------------------------------------------------------- bounds
\* Keys pushed and declared range ends are drawn from 0..MaxKey; queries from 0..MaxKey+1.
MaxKey == 4
\* At most MaxPush calls of push.
MaxPush == 5
\* with_error is called with 1..MaxErr.
MaxErr == 2
\* Builder::new is also called with max - min up to 2^MaxDiffBits + 2
MaxDiffBits == 29
\* Strictly increasing keys are pushed from 0..MaxIncKey
MaxIncKey == 8
\* Index states with a radix shift: buckets of 2^SegmentShift keys, up to MaxLow
\* knots in the bucket before the full one, up to LINEAR_THRESH + MaxExtra knots in
\* the full bucket
SegmentShift == 6
MaxLow == 2
MaxExtra == 1

Keys == 0..MaxKey
QueryKeys == 0..(MaxKey + 1)
Errors == 1..MaxErr

\* ---------------------------------------------------------- constants
LINEAR_THRESH == 32
RADIX_BITS == 10
\* std::mem::size_of::<T>() for T = u32
SIZE_OF_T == 4
\* T::BITS, the width leading_zeros counts in
KEY_BITS == 32
\* the max_error Builder::new sets
DEFAULT_MAX_ERROR == 32

VARIABLES
  builder,   \* the Builder's fields (what build consumed, once phase = "built")
  rs,        \* the RadixSpline that build returned (meaningful when phase = "built")
  phase,     \* "building" | "built" | "panicked"
  data,      \* ghost: the keys pushed so far, in order (the caller's array)
  last_op,   \* ghost: the last operation called and its arguments
  q,         \* the result of the last query
  pre,       \* ghost: the Builder's fields as the last operation found them
  wide       \* min, max, shift_bits and the radix_table length of a Builder::new over
             \* a range too wide for its table to be written out

vars == <<builder, rs, phase, data, last_op, q, pre, wide>>

\* ------------------------------------------------------------ helpers
At(v, i) == v[i + 1]
Last(v) == v[Len(v)]
Min2(a, b) == IF a < b THEN a ELSE b
Max2(a, b) == IF a > b THEN a ELSE b
saturating_sub(a, b) == IF a > b THEN a - b ELSE 0

RECURSIVE Pow2(_)
Pow2(n) == IF n = 0 THEN 1 ELSE 2 * Pow2(n - 1)

\* the number of bits of v: 0 for 0, else floor(log2 v) + 1
RECURSIVE BitLen(_)
BitLen(v) == IF v = 0 THEN 0 ELSE 1 + BitLen(v \div 2)

leading_zeros(v) == KEY_BITS - BitLen(v)

\* v >> s
Shr(v, s) == v \div Pow2(s)

\* v[a..b].fill(x) on a sequence, a and b zero-based, b exclusive
Fill(v, a, b, x) == [i \in 1..Len(v) |-> IF a < i /\ i <= b THEN x ELSE v[i]]
\* the slice v[a..b] panics unless a <= b <= len
SlicePanics(v, a, b) == a > b \/ b > Len(v)

Coordinate(x, y) == [x |-> x, y |-> y]

\* ------------------------------------------------------------- orient
\* e > PREC or e < -PREC with PREC = f32::EPSILON = 2^-23: e is an integer here, and
\* an integer exceeds 2^-23 exactly when it is at least 1.
orient(dx1, dy1, dx2, dy2) ==
  LET e == (dy1 * dx2) - (dy2 * dx1)
  IN  IF e >= 1 THEN "Clockwise"
      ELSE IF e <= -1 THEN "Counterclockwise"
      ELSE "Linear"

\* shift_bits with the width of T in bits, where the code has size_of::<T>() bytes.
shift_bits_of_key_bits(diff, radix_bits) ==
  saturating_sub(saturating_sub(KEY_BITS, radix_bits), leading_zeros(diff))

shift_bits(diff, radix_bits) ==
  saturating_sub(saturating_sub(SIZE_OF_T, radix_bits), leading_zeros(diff))

\* ------------------------------------------------------------ Builder
DefaultCoordinate == Coordinate(0, 0)

New(a, b) ==
  LET min == IF a > b THEN b ELSE a
      max == IF a > b THEN a ELSE b
      sb == shift_bits(max - min, RADIX_BITS)
      max_prefix == Shr(max - min, sb)
  IN  [ min |-> min, max |-> max, shift_bits |-> sb,
        max_error |-> DEFAULT_MAX_ERROR, prev_prefix |-> 0,
        radix_table |-> [i \in 1..(2 + max_prefix) |-> 0],
        spline_points |-> << >>,
        num_points |-> 0, prev_y |-> 0, prev_x |-> min, distinct |-> 0,
        lower_limit |-> DefaultCoordinate, upper_limit |-> DefaultCoordinate,
        prev_point |-> DefaultCoordinate ]

set_prev_cdf(b, x, y) == [b EXCEPT !.prev_point = Coordinate(x, y)]
set_upper_limit(b, x, y) == [b EXCEPT !.upper_limit = Coordinate(x, y)]
set_lower_limit(b, x, y) == [b EXCEPT !.lower_limit = Coordinate(x, y)]

curr_prefix_of(b, coord) == Shr(coord.x - b.min, b.shift_bits)

\* add_key_to_spline panics when coord.x - min underflows or the slice
\* radix_table[prev_prefix + 1 ..= curr_prefix] is out of order or out of range.
add_key_to_spline_panics(b, coord) ==
  \/ coord.x < b.min
  \/ /\ curr_prefix_of(b, coord) # b.prev_prefix
     /\ SlicePanics(b.radix_table, b.prev_prefix + 1, curr_prefix_of(b, coord) + 1)

\* add_key_to_spline filling the table with the length of spline_points instead of
\* the index of the knot just pushed.
add_key_to_spline_fill_len(b, coord) ==
  LET pts == Append(b.spline_points, coord)
      curr_prefix == curr_prefix_of(b, coord)
  IN  IF curr_prefix # b.prev_prefix
      THEN [b EXCEPT !.spline_points = pts,
                     !.radix_table = Fill(b.radix_table, b.prev_prefix + 1,
                                          curr_prefix + 1, Len(pts)),
                     !.prev_prefix = curr_prefix]
      ELSE [b EXCEPT !.spline_points = pts]

add_key_to_spline(b, coord) ==
  LET pts == Append(b.spline_points, coord)
      curr_prefix == curr_prefix_of(b, coord)
  IN  IF curr_prefix # b.prev_prefix
      THEN [b EXCEPT !.spline_points = pts,
                     !.radix_table = Fill(b.radix_table, b.prev_prefix + 1,
                                          curr_prefix + 1, Len(pts) - 1),
                     !.prev_prefix = curr_prefix]
      ELSE [b EXCEPT !.spline_points = pts]

\* The cone test emitting only for a point strictly outside the cone: a point on the
\* upper_limit or lower_limit ray counts as inside.
OutsideCone_strict(b, x, y) ==
  LET last == Last(b.spline_points)
  IN  \/ orient(b.upper_limit.x - last.x, b.upper_limit.y - last.y,
                x - last.x, y - last.y) = "Counterclockwise"
      \/ orient(b.lower_limit.x - last.x, b.lower_limit.y - last.y,
                x - last.x, y - last.y) = "Clockwise"

\* The cone test of insert (lines 170-190): TRUE when (x, y) is not strictly inside
\* the cone of upper_limit and lower_limit seen from the last knot, so that
\* prev_point is emitted as a knot.
OutsideCone(b, x, y) ==
  LET last == Last(b.spline_points)
      upper_limit_x_diff == b.upper_limit.x - last.x
      lower_limit_x_diff == b.lower_limit.x - last.x
      x_diff == x - last.x
      upper_limit_y_diff == b.upper_limit.y - last.y
      lower_limit_y_diff == b.lower_limit.y - last.y
      y_diff == y - last.y
  IN  \/ orient(upper_limit_x_diff, upper_limit_y_diff, x_diff, y_diff) # "Clockwise"
      \/ orient(lower_limit_x_diff, lower_limit_y_diff, x_diff, y_diff)
           # "Counterclockwise"

\* The else branch of insert (lines 195-211): tighten the limits.
\* The else branch of the cone test without its second half: the lower limit is never
\* increased, only the upper limit is decreased.
Tighten_upper_only(b, x, y, upper_y, lower_y) ==
  LET last == Last(b.spline_points)
  IN  IF orient(b.upper_limit.x - last.x, b.upper_limit.y - last.y,
                x - last.x, upper_y - last.y) = "Clockwise"
      THEN set_upper_limit(b, x, upper_y) ELSE b

Tighten(b, x, y, upper_y, lower_y) ==
  LET last == Last(b.spline_points)
      upper_limit_x_diff == b.upper_limit.x - last.x
      lower_limit_x_diff == b.lower_limit.x - last.x
      x_diff == x - last.x
      upper_limit_y_diff == b.upper_limit.y - last.y
      lower_limit_y_diff == b.lower_limit.y - last.y
      upper_y_diff == upper_y - last.y
      lower_y_diff == lower_y - last.y
      b1 == IF orient(upper_limit_x_diff, upper_limit_y_diff, x_diff, upper_y_diff)
                = "Clockwise"
            THEN set_upper_limit(b, x, upper_y) ELSE b
  IN  IF orient(lower_limit_x_diff, lower_limit_y_diff, x_diff, lower_y_diff)
           = "Counterclockwise"
      THEN set_lower_limit(b1, x, lower_y) ELSE b1

\* The debug assertions of insert for the third and later distinct key (lines 172-185).
insert_cone_asserts(b, x, y) ==
  LET last == Last(b.spline_points)
  IN  /\ b.upper_limit.x >= last.x
      /\ b.lower_limit.x >= last.x
      /\ x >= last.x
      /\ b.upper_limit.y >= last.y
      /\ y >= last.y
      /\ b.prev_point.x # last.x

\* insert panics: a debug assertion fails, or add_key_to_spline panics.
insert_panics(b, x, y) ==
  IF ~(b.min <= x /\ x <= b.max) THEN TRUE
  ELSE IF b.num_points = 0 THEN add_key_to_spline_panics(b, Coordinate(x, y))
  ELSE IF x = b.prev_x THEN FALSE
  ELSE IF b.distinct + 1 = 2 THEN FALSE
  ELSE IF ~insert_cone_asserts(b, x, y) THEN TRUE
  ELSE IF OutsideCone(b, x, y) THEN add_key_to_spline_panics(b, b.prev_point)
  ELSE FALSE

\* insert counting a duplicate key as a distinct one before its early return.
insert_counting_duplicates(b, x, y) ==
  IF b.num_points = 0
  THEN set_prev_cdf(add_key_to_spline([b EXCEPT !.distinct = 1], Coordinate(x, y)), x, y)
  ELSE IF x = b.prev_x THEN [b EXCEPT !.distinct = @ + 1]
  ELSE
    LET b1 == [b EXCEPT !.distinct = @ + 1]
        upper_y == y + b.max_error
        lower_y == Max2(y - b.max_error, 0)
    IN  IF b1.distinct = 2
        THEN set_prev_cdf(set_lower_limit(set_upper_limit(b1, x, upper_y), x, lower_y),
                          x, y)
        ELSE IF OutsideCone(b1, x, y)
        THEN set_prev_cdf(
               set_lower_limit(
                 set_upper_limit(add_key_to_spline(b1, b1.prev_point), x, upper_y),
                 x, lower_y),
               x, y)
        ELSE set_prev_cdf(Tighten(b1, x, y, upper_y, lower_y), x, y)

insert(b, x, y) ==
  IF b.num_points = 0
  THEN set_prev_cdf(add_key_to_spline([b EXCEPT !.distinct = 1], Coordinate(x, y)), x, y)
  ELSE IF x = b.prev_x THEN b
  ELSE
    LET b1 == [b EXCEPT !.distinct = @ + 1]
        max_err == b.max_error
        upper_y == y + max_err
        lower_y == Max2(y - max_err, 0)
    IN  IF b1.distinct = 2
        THEN set_prev_cdf(set_lower_limit(set_upper_limit(b1, x, upper_y), x, lower_y),
                          x, y)
        ELSE IF OutsideCone(b1, x, y)
        THEN set_prev_cdf(
               set_lower_limit(
                 set_upper_limit(add_key_to_spline(b1, b1.prev_point), x, upper_y),
                 x, lower_y),
               x, y)
        ELSE set_prev_cdf(Tighten(b1, x, y, upper_y, lower_y), x, y)

\* the rank push gives its key
push_y(b) == IF b.num_points = 0 THEN 0 ELSE b.prev_y + 1

push(b, x) ==
  LET y == push_y(b)
  IN  [insert(b, x, y) EXCEPT !.num_points = @ + 1, !.prev_x = x, !.prev_y = y]

\* ---------------------------------------------------------- RadixSpline
DefaultRadixSpline ==
  [ min |-> 0, max |-> 0, shift_bits |-> 0, max_error |-> 0, num_points |-> 0,
    radix_table |-> << >>, spline_points |-> << >> ]

\* build_last without its test of the last knot: (prev_x, prev_y) is always appended.
build_last_always(b) == add_key_to_spline(b, Coordinate(b.prev_x, b.prev_y))

\* build appending the last key with the rank of its first push (prev_point) instead
\* of the rank of its last push (prev_y).
build_last_first_rank(b) ==
  IF Last(b.spline_points).x # b.prev_x
  THEN add_key_to_spline(b, Coordinate(b.prev_x, b.prev_point.y))
  ELSE b

\* build's add_key_to_spline of (prev_x, prev_y), when the last knot is not at prev_x
build_last(b) ==
  IF Last(b.spline_points).x # b.prev_x
  THEN add_key_to_spline(b, Coordinate(b.prev_x, b.prev_y))
  ELSE b

build_panics(b) ==
  /\ b.num_points # 0
  /\ \/ ~(b.prev_x <= b.max)
     \/ /\ Last(b.spline_points).x # b.prev_x
        /\ add_key_to_spline_panics(b, Coordinate(b.prev_x, b.prev_y))

build(b) ==
  IF b.num_points = 0 THEN DefaultRadixSpline
  ELSE
    LET b1 == build_last(b)
        l == Len(b1.radix_table)
        table == Fill(b1.radix_table, Min2(b1.prev_prefix + 1, l - 1), l,
                      Len(b1.spline_points))
    IN  [ min |-> b1.min, max |-> b1.max, shift_bits |-> b1.shift_bits,
          max_error |-> b1.max_error, num_points |-> b1.num_points,
          radix_table |-> table, spline_points |-> b1.spline_points ]

\* ----------------------------------------------------------- the query
prefix_of(r, key) == Shr(key - r.min, r.shift_bits)

\* position with the test v.x > key: a knot at the key itself is passed over.
position_strict(r, begin, end, key) ==
  LET hits == {i \in begin..(end - 1) : At(r.spline_points, i).x > key}
  IN  IF hits = {} THEN -1
      ELSE (CHOOSE i \in hits : \A j \in hits : i <= j) - begin

\* spline_points[begin..end].iter().position(|v| v.x >= key): the offset of the first
\* such knot in the slice, or -1 for None.
position(r, begin, end, key) ==
  LET hits == {i \in begin..(end - 1) : At(r.spline_points, i).x >= key}
  IN  IF hits = {} THEN -1
      ELSE (CHOOSE i \in hits : \A j \in hits : i <= j) - begin

\* spline_points[begin..end].binary_search_by(|c| c.x.partial_cmp(key)): Ok(i) on a
\* hit, Err(i) with the insertion point on a miss, i counted from the start of the
\* slice; both arms of the match return i.  The knots of a slice have distinct x, so
\* the hit is unique.
binary_search_by(r, begin, end, key) ==
  Cardinality({i \in begin..(end - 1) : At(r.spline_points, i).x < key})

\* spline_segment panics: a debug assertion fails, a table or slice index is out of
\* range, or position(...) is None and unwrap panics.
spline_segment_panics(r, key) ==
  LET prefix == prefix_of(r, key)
  IN  \/ ~(prefix + 1 < Len(r.radix_table))
      \/ LET begin == At(r.radix_table, prefix)
             end == At(r.radix_table, prefix + 1)
         IN  \/ ~(end >= begin)
             \/ /\ end # begin
                /\ \/ SlicePanics(r.spline_points, begin, end)
                   \/ /\ end - begin < LINEAR_THRESH
                      /\ position(r, begin, end, key) = -1

spline_segment(r, key) ==
  LET prefix == prefix_of(r, key)
      begin == At(r.radix_table, prefix)
      end == At(r.radix_table, prefix + 1)
  IN  IF end = begin THEN begin
      ELSE IF end - begin < LINEAR_THRESH THEN begin + position(r, begin, end, key)
      ELSE binary_search_by(r, begin, end, key)

\* A rational num/den, den > 0.
Rat(num, den) == [num |-> num, den |-> den]
RatLe(a, b) == a.num * b.den <= b.num * a.den
RatAddInt(a, n) == Rat(a.num + n * a.den, a.den)
RatFloor(a) == a.num \div a.den

\* get_estimated_position panics: num_points - 1 underflows, spline_segment panics,
\* spline_points[idx] is out of range, r.x - l.x underflows, or a debug assertion
\* (slope > 0, key >= l.x) fails.  Knots with r.x = l.x never meet in a built index
\* (KnotsStrictlyMonotone below); the model counts that case with the failures.
get_estimated_position_panics(r, key) ==
  IF key <= r.min THEN FALSE
  ELSE IF key >= r.max THEN r.num_points = 0
  ELSE IF spline_segment_panics(r, key) THEN TRUE
  ELSE LET idx == spline_segment(r, key)
       IN  IF idx = 0 THEN FALSE
           ELSE IF idx >= Len(r.spline_points) THEN TRUE
           ELSE LET l == At(r.spline_points, idx - 1)
                    rr == At(r.spline_points, idx)
                IN  \/ rr.x <= l.x
                    \/ ~(rr.y - l.y > 0)
                    \/ ~(key >= l.x)

\* get_estimated_position with its first two tests in the other order: key >= max is
\* tested before key <= min.
get_estimated_position_max_first(r, key) ==
  IF key >= r.max THEN Rat(r.num_points - 1, 1)
  ELSE IF key <= r.min THEN Rat(0, 1)
  ELSE LET idx == spline_segment(r, key)
       IN  IF idx = 0 THEN Rat(0, 1)
           ELSE LET l == At(r.spline_points, idx - 1)
                    rr == At(r.spline_points, idx)
                IN  Rat((rr.y - l.y) * (key - l.x) + l.y * (rr.x - l.x), rr.x - l.x)

\* slope * (key - l.x) + l.y with slope = (r.y - l.y) / (r.x - l.x), exactly
get_estimated_position(r, key) ==
  IF key <= r.min THEN Rat(0, 1)
  ELSE IF key >= r.max THEN Rat(r.num_points - 1, 1)
  ELSE LET idx == spline_segment(r, key)
       IN  IF idx = 0 THEN Rat(0, 1)
           ELSE LET l == At(r.spline_points, idx - 1)
                    rr == At(r.spline_points, idx)
                IN  Rat((rr.y - l.y) * (key - l.x) + l.y * (rr.x - l.x), rr.x - l.x)

\* (est - max_error).max(0.) as usize
search_start(r, est) ==
  LET v == RatAddInt(est, 0 - r.max_error)
  IN  IF v.num <= 0 THEN 0 ELSE RatFloor(v)

\* (est + max_error + 2.).min(num_points as f32) as usize
search_end(r, est) ==
  LET v == RatAddInt(est, r.max_error + 2)
  IN  IF RatLe(Rat(r.num_points, 1), v) THEN r.num_points
      ELSE IF v.num <= 0 THEN 0 ELSE RatFloor(v)

search_bound(r, key) ==
  LET est == get_estimated_position(r, key)
  IN  [start |-> search_start(r, est), end |-> search_end(r, est)]

\* -------------------------------------------------------------- actions
NoQuery == [key |-> -1, panicked |-> FALSE, est |-> Rat(0, 1), start |-> 0, end |-> 0]
NoOp == [op |-> "new", x |-> 0, violated |-> FALSE]

\* The scalar fields Builder::new(a, b) computes (lines 75-84): min, max, shift_bits
\* and the length 2 + max_prefix of radix_table.
NewShape(a, b) ==
  LET min == IF a > b THEN b ELSE a
      max == IF a > b THEN a ELSE b
      sb == shift_bits(max - min, RADIX_BITS)
      max_prefix == Shr(max - min, sb)
  IN  [min |-> min, max |-> max, shift_bits |-> sb, table_len |-> 2 + max_prefix]

Init ==
  /\ \E a \in Keys, b \in Keys : builder = New(a, b)
  /\ rs = DefaultRadixSpline
  /\ phase = "building"
  /\ data = << >>
  /\ last_op = NoOp
  /\ q = NoQuery
  /\ pre = builder
  /\ wide = NewShape(0, 0)

\* with_error without its assert_eq!: max_error is set whenever it is called.
WithError_no_assert(err) ==
  /\ phase = "building"
  /\ last_op' = [op |-> "with_error", x |-> err, violated |-> builder.num_points # 0]
  /\ builder' = [builder EXCEPT !.max_error = err]
  /\ pre' = builder
  /\ UNCHANGED <<rs, phase, data, q, wide>>

\* with_error(err): assert_eq!(num_points, 0) panics after a push.
WithError(err) ==
  /\ phase = "building"
  /\ last_op' = [op |-> "with_error", x |-> err, violated |-> builder.num_points # 0]
  /\ pre' = builder
  /\ UNCHANGED wide
  /\ IF builder.num_points # 0
     THEN /\ phase' = "panicked"
          /\ UNCHANGED <<builder, rs, data, q>>
     ELSE /\ builder' = [builder EXCEPT !.max_error = err]
          /\ UNCHANGED <<rs, phase, data, q>>

\* the precondition of push: prev_x <= x, min <= x <= max
PushPre(b, x) == b.prev_x <= x /\ b.min <= x /\ x <= b.max

\* push(x)
Push(x) ==
  /\ phase = "building"
  /\ Len(data) < MaxPush
  /\ last_op' = [op |-> "push", x |-> x, violated |-> ~PushPre(builder, x)]
  /\ pre' = builder
  /\ UNCHANGED wide
  /\ IF insert_panics(builder, x, push_y(builder))
     THEN /\ phase' = "panicked"
          /\ UNCHANGED <<builder, rs, data, q>>
     ELSE /\ builder' = push(builder, x)
          /\ data' = Append(data, x)
          /\ UNCHANGED <<rs, phase, q>>

\* build(): consumes the builder
Build ==
  /\ phase = "building"
  /\ last_op' = [op |-> "build", x |-> 0, violated |-> FALSE]
  /\ pre' = builder
  /\ UNCHANGED wide
  /\ IF build_panics(builder)
     THEN /\ phase' = "panicked"
          /\ UNCHANGED <<builder, rs, data, q>>
     ELSE /\ rs' = build(builder)
          /\ phase' = "built"
          /\ UNCHANGED <<builder, data, q>>

\* search_bound(key) on the built index
Query(key) ==
  /\ phase = "built"
  /\ last_op' = [op |-> "search_bound", x |-> key, violated |-> FALSE]
  /\ pre' = builder
  /\ UNCHANGED wide
  /\ IF get_estimated_position_panics(rs, key)
     THEN /\ phase' = "panicked"
          /\ q' = [NoQuery EXCEPT !.key = key, !.panicked = TRUE]
          /\ UNCHANGED <<builder, rs, data>>
     ELSE /\ q' = [key |-> key, panicked |-> FALSE,
                   est |-> get_estimated_position(rs, key),
                   start |-> search_bound(rs, key).start,
                   end |-> search_bound(rs, key).end]
          /\ UNCHANGED <<builder, rs, phase, data>>

\* The differences max - min around every power of two up to 2^MaxDiffBits
WideDiffs == {Pow2(k) + e : k \in 0..MaxDiffBits, e \in -1..2}
WideMins == {0, 1}

\* Builder::new(a, b) with arguments of any size, called before anything was done
\* with the small builder: its shape (min, max, shift_bits, radix_table length) is
\* kept in wide and the run ends there.
NewWide(a, b) ==
  /\ phase = "building"
  /\ last_op = NoOp
  /\ wide' = NewShape(a, b)
  /\ phase' = "shaped"
  /\ last_op' = [op |-> "new_wide", x |-> 0, violated |-> FALSE]
  /\ pre' = builder
  /\ UNCHANGED <<builder, rs, data, q>>

\* Callers that keep the preconditions of push.
Next ==
  \/ \E err \in Errors : WithError(err)
  \/ \E x \in Keys : PushPre(builder, x) /\ Push(x)
  \/ Build
  \/ \E key \in QueryKeys : Query(key)

Spec == Init /\ [][Next]_vars

\* Callers that keep the preconditions of push, and callers that construct a
\* builder over a range of any width.
NextWide ==
  \/ Next
  \/ \E a \in WideMins, d \in WideDiffs : NewWide(a, a + d)
  \/ \E a \in WideMins, d \in WideDiffs : NewWide(a + d, a)

SpecWide == Init /\ [][NextWide]_vars

\* Callers that push any key, in any order.
NextAnyPush ==
  \/ \E err \in Errors : WithError(err)
  \/ \E x \in Keys : Push(x)

SpecAnyPush == Init /\ [][NextAnyPush]_vars

\* ------------------------------------------------------------ properties
\* search_bound was the last call, on an index built from at least one push
Queried == last_op.op = "search_bound" /\ rs.num_points >= 1
\* ... and it returned
Returned == Queried /\ ~q.panicked
\* the index was made by Builder::new(data[first], data[last])
ExactRange == Len(data) >= 1 /\ rs.min = data[1] /\ rs.max = data[Len(data)]
\* the zero-based indexes of key in the pushed data
Ranks(key) == {i \in 0..(Len(data) - 1) : data[i + 1] = key}
\* |a - n| <= bound, for a rational a and integers n, bound
RatWithin(a, n, bound) ==
  /\ a.num - n * a.den <= bound * a.den
  /\ n * a.den - a.num <= bound * a.den

\* C1 (containment): on an index built over exactly [data[first], data[last]] with
\* max_error > 0, search_bound(k) of a pushed key k returns a range [start, end) that
\* holds some index of k in data.
C1_Containment ==
  (Queried /\ ExactRange /\ rs.max_error > 0 /\ Ranks(q.key) # {})
    => /\ ~q.panicked
       /\ \E i \in Ranks(q.key) : q.start <= i /\ i < q.end

\* C2 (totality): on an index built from at least one push, search_bound(key) returns
\* for every key, without a panic, a pair with start <= end <= num_points.
C2_QueryTotal ==
  Queried => (~q.panicked /\ q.start <= q.end /\ q.end <= rs.num_points)

\* C3 (all duplicates): under the conditions of C1, [start, end) holds every index
\* of k in data.
C3_AllDuplicates ==
  (Queried /\ ExactRange /\ rs.max_error > 0 /\ Ranks(q.key) # {})
    => /\ ~q.panicked
       /\ \A i \in Ranks(q.key) : q.start <= i /\ i < q.end

\* C4 (error envelope): every pushed key with rank r has
\* |get_estimated_position(key) - r| <= max_error + 1.
C4_ErrorEnvelope ==
  (Queried /\ rs.max_error > 0 /\ Ranks(q.key) # {})
    => /\ ~q.panicked
       /\ \A r \in Ranks(q.key) : RatWithin(q.est, r, rs.max_error + 1)

\* C5 (bound width): on every non-empty index with max_error > 0, search_bound(key)
\* returns, for every key, a pair with end - start <= 2 * max_error + 3.
C5_BoundWidth ==
  (Queried /\ rs.max_error > 0)
    => (~q.panicked /\ q.end - q.start <= 2 * rs.max_error + 3)

\* The width of every pair that search_bound does return is within 2 * max_error + 3.
BoundWidthWhereReturned ==
  (Returned /\ rs.max_error > 0) => q.end - q.start <= 2 * rs.max_error + 3

\* C6 (endpoint pinning), as claimed: the estimate is num_points - 1 for every
\* key >= max, also when min = max, and 0 for every key <= min when min < max.
C6_EndpointPinning ==
  Queried =>
    /\ q.key >= rs.max => (~q.panicked /\ q.est = Rat(rs.num_points - 1, 1))
    /\ (q.key <= rs.min /\ rs.min < rs.max) => (~q.panicked /\ q.est = Rat(0, 1))

\* C6, amended: the estimate is 0 for every key <= min, also for key = min = max, and
\* num_points - 1 for every key >= max that is above min.
C6_EndpointPinning_MinFirst ==
  Queried =>
    /\ q.key <= rs.min => (~q.panicked /\ q.est = Rat(0, 1))
    /\ (q.key >= rs.max /\ q.key > rs.min)
         => (~q.panicked /\ q.est = Rat(rs.num_points - 1, 1))

\* C6's case: the key min = max of an index of several points was queried.
C6_Witness ==
  /\ Queried
  /\ rs.min = rs.max
  /\ rs.num_points >= 2
  /\ q.key = rs.min
  /\ q.est = Rat(0, 1)

\* C7 (monotone estimates): on every non-empty index, get_estimated_position returns
\* for every key, and its values are non-decreasing in the key.
C7_MonotoneEstimates ==
  (phase = "built" /\ rs.num_points >= 1) =>
    \A k1 \in QueryKeys, k2 \in QueryKeys :
      k1 <= k2 =>
        /\ ~get_estimated_position_panics(rs, k1)
        /\ ~get_estimated_position_panics(rs, k2)
        /\ RatLe(get_estimated_position(rs, k1), get_estimated_position(rs, k2))

\* The estimates that get_estimated_position does return are non-decreasing in the key.
MonotoneWhereReturned ==
  (phase = "built" /\ rs.num_points >= 1) =>
    \A k1 \in QueryKeys, k2 \in QueryKeys :
      (/\ k1 <= k2
       /\ ~get_estimated_position_panics(rs, k1)
       /\ ~get_estimated_position_panics(rs, k2))
        => RatLe(get_estimated_position(rs, k1), get_estimated_position(rs, k2))

\* C8 (precondition detection): every push(x) with x below the previously pushed key
\* or outside [min, max] fails a debug assertion.
C8_PreconditionDetected ==
  (last_op.op = "push" /\ last_op.violated) => phase = "panicked"

\* A push outside [min, max] always fails the assertion of insert's first line.
OutOfRangeDetected ==
  (last_op.op = "push" /\ ~(builder.min <= last_op.x /\ last_op.x <= builder.max))
    => phase = "panicked"

\* C9 (ordering of with_error): with_error after a push panics and leaves every field
\* as it was; with_error(e) before the first push sets max_error = e, changes no other
\* field and does not panic.
C9_WithErrorOrdering ==
  [][ last_op'.op = "with_error" =>
        IF builder.num_points > 0
        THEN /\ phase' = "panicked"
             /\ builder' = builder
        ELSE /\ phase' = phase
             /\ builder'.max_error = last_op'.x
             /\ builder' = [builder EXCEPT !.max_error = last_op'.x]
             /\ UNCHANGED <<rs, data>> ]_vars

\* C9's case: with_error was called after a push and panicked.
C9_Witness ==
  /\ last_op.op = "with_error"
  /\ builder.num_points >= 1
  /\ phase = "panicked"

StrictlyMonotone(pts) ==
  \A i \in 1..(Len(pts) - 1) : pts[i].x < pts[i + 1].x /\ pts[i].y < pts[i + 1].y

\* get_estimated_position(key) reaches its interpolation (lines 274-280)
Interpolates(r, key) ==
  /\ r.min < key /\ key < r.max
  /\ ~spline_segment_panics(r, key)
  /\ spline_segment(r, key) >= 1
  /\ spline_segment(r, key) < Len(r.spline_points)

\* C10 (strict monotonicity of knots): during the pushes and in the built index,
\* consecutive knots increase strictly in x and in y, and every interpolation of
\* get_estimated_position divides by r.x - l.x > 0 with r.y - l.y > 0.
C10_KnotsStrictlyMonotone ==
  /\ StrictlyMonotone(builder.spline_points)
  /\ phase = "built" =>
       /\ StrictlyMonotone(rs.spline_points)
       /\ \A key \in QueryKeys :
            Interpolates(rs, key) =>
              LET idx == spline_segment(rs, key)
                  l == At(rs.spline_points, idx - 1)
                  rr == At(rs.spline_points, idx)
              IN  rr.x - l.x > 0 /\ rr.y - l.y > 0

\* C10's case: an index of three or more knots over data with a duplicate, queried
\* at a key whose estimate was interpolated between two knots.
C10_Witness ==
  /\ Returned
  /\ Len(rs.spline_points) >= 3
  /\ Cardinality({data[i] : i \in 1..Len(data)}) < Len(data)
  /\ Interpolates(rs, q.key)
  /\ q.est.den > 1

\* the prefix of a knot of index r
knot_prefix(r, c) == Shr(c.x - r.min, r.shift_bits)
\* the number of knots of r with a prefix below p
KnotsBelow(r, p) ==
  Cardinality({i \in 1..Len(r.spline_points) : knot_prefix(r, r.spline_points[i]) < p})

\* C11 (radix table of a built index): in every index built from at least one push,
\* radix_table[p] is the number of knots with a prefix below p, for every position p;
\* the table is non-decreasing, starts with 0 and ends with len(spline_points).
C11_RadixTable ==
  (phase = "built" /\ rs.num_points >= 1) =>
    /\ \A p \in 0..(Len(rs.radix_table) - 1) : At(rs.radix_table, p) = KnotsBelow(rs, p)
    /\ \A p \in 1..(Len(rs.radix_table) - 1) :
         At(rs.radix_table, p - 1) <= At(rs.radix_table, p)
    /\ At(rs.radix_table, 0) = 0
    /\ Last(rs.radix_table) = Len(rs.spline_points)

\* C11's case: build has just returned an index of three or more knots whose declared
\* range starts below the first key and ends above the last.
C11_Witness ==
  /\ phase = "built"
  /\ last_op.op = "build"
  /\ Len(rs.spline_points) >= 3
  /\ rs.min < rs.spline_points[1].x
  /\ Last(rs.spline_points).x < rs.max

\* The last call was push(x) of a third or later distinct key, and it returned.
LaterDistinctPush ==
  /\ last_op.op = "push"
  /\ phase = "building"
  /\ pre.distinct >= 2
  /\ last_op.x # pre.prev_x

\* The point (x, y) of the last push, and the knot the cone starts at.
PushedX == last_op.x
PushedY == pre.prev_y + 1
ConeApex == Last(pre.spline_points)

\* (c - apex) x (p - apex), the cross product that tells on which side of the ray
\* from the apex through c the point p lies: positive when p is strictly below the
\* ray (smaller slope), zero when p is on it, negative when strictly above.
Cross(c, px, py) ==
  (c.y - ConeApex.y) * (px - ConeApex.x) - (py - ConeApex.y) * (c.x - ConeApex.x)

UpperWitnessY == PushedY + pre.max_error
LowerWitnessY == Max2(PushedY - pre.max_error, 0)

\* (x, y) is strictly above the upper ray or strictly below the lower ray
StrictlyOutsideCone ==
  \/ Cross(pre.upper_limit, PushedX, PushedY) < 0
  \/ Cross(pre.lower_limit, PushedX, PushedY) > 0
\* (x, y) is strictly below the upper ray and strictly above the lower ray
StrictlyInsideCone ==
  /\ Cross(pre.upper_limit, PushedX, PushedY) > 0
  /\ Cross(pre.lower_limit, PushedX, PushedY) < 0

\* prev_point became a knot and both limits were reset to the witnesses of (x, y)
KnotEmittedLimitsReset ==
  /\ builder.spline_points = Append(pre.spline_points, pre.prev_point)
  /\ builder.upper_limit = Coordinate(PushedX, UpperWitnessY)
  /\ builder.lower_limit = Coordinate(PushedX, LowerWitnessY)

\* no knot, and each limit was replaced by its witness exactly when the witness is
\* strictly inside the old limit
NoKnotLimitsTightened ==
  /\ builder.spline_points = pre.spline_points
  /\ builder.radix_table = pre.radix_table
  /\ builder.upper_limit =
       IF Cross(pre.upper_limit, PushedX, UpperWitnessY) > 0
       THEN Coordinate(PushedX, UpperWitnessY) ELSE pre.upper_limit
  /\ builder.lower_limit =
       IF Cross(pre.lower_limit, PushedX, LowerWitnessY) < 0
       THEN Coordinate(PushedX, LowerWitnessY) ELSE pre.lower_limit

\* C12 (knot emission rule), as claimed: the push of a third or later distinct key
\* emits prev_point and resets the limits only when (x, y) is strictly outside the
\* cone; a point strictly inside or on a limit ray emits no knot and only tightens.
C12_KnotEmission ==
  LaterDistinctPush =>
    IF StrictlyOutsideCone THEN KnotEmittedLimitsReset ELSE NoKnotLimitsTightened

\* C12, amended: prev_point is emitted and the limits are reset whenever (x, y) is not
\* strictly inside the cone, so also when it is on the upper_limit or lower_limit
\* ray; only a point strictly inside emits no knot and tightens the limits.
C12_KnotEmission_NotStrictlyInside ==
  LaterDistinctPush =>
    IF StrictlyInsideCone THEN NoKnotLimitsTightened ELSE KnotEmittedLimitsReset

\* C12's case: a point on a limit ray, not outside the cone, was pushed and emitted
\* a knot.
C12_Witness ==
  /\ LaterDistinctPush
  /\ ~StrictlyOutsideCone
  /\ ~StrictlyInsideCone
  /\ KnotEmittedLimitsReset

\* The shift the radix width asks for: max(0, W - R - clz(diff)) with W = KEY_BITS
IntendedShift(diff) == Max2(0, KEY_BITS - RADIX_BITS - leading_zeros(diff))

\* C13 (shift computation of Builder::new): shift_bits = max(0, W - R - clz(max - min))
\* with W = 32 and R = 10, so the largest prefix (max - min) >> shift_bits is at most
\* 2^10 and radix_table has at most 2^10 + 2 entries, whatever max - min is.
C13_ShiftComputation ==
  phase = "shaped" =>
    /\ wide.shift_bits = IntendedShift(wide.max - wide.min)
    /\ Shr(wide.max - wide.min, wide.shift_bits) <= Pow2(RADIX_BITS)
    /\ wide.table_len <= Pow2(RADIX_BITS) + 2

\* A non-empty index was built.
BuiltNonEmpty == phase \in {"built", "panicked"} /\ rs.num_points >= 1
DistinctPushed == Cardinality({data[i] : i \in 1..Len(data)})

\* C14 (finalization), as claimed: the last knot of every non-empty built index is
\* exactly (prev_x, prev_y) = (last pushed key, num_points - 1), also when the last
\* key was pushed several times and when only one distinct key was ever pushed.
C14_LastKnot ==
  BuiltNonEmpty =>
    /\ Last(rs.spline_points) = Coordinate(builder.prev_x, builder.prev_y)
    /\ builder.prev_x = Last(data)
    /\ builder.prev_y = rs.num_points - 1

\* C14, amended: (prev_x, prev_y) = (last pushed key, num_points - 1) and the last
\* knot is at x = prev_x; its y is prev_y whenever at least two distinct keys were
\* pushed, also when the last key was pushed several times; when only one distinct key
\* was ever pushed the only knot is (key, 0), however often the key was pushed.
C14_LastKnot_TwoDistinct ==
  BuiltNonEmpty =>
    /\ builder.prev_x = Last(data)
    /\ builder.prev_y = rs.num_points - 1
    /\ rs.num_points = Len(data)
    /\ Last(rs.spline_points).x = builder.prev_x
    /\ IF DistinctPushed >= 2
       THEN Last(rs.spline_points).y = builder.prev_y
       ELSE rs.spline_points = <<Coordinate(data[1], 0)>>

\* C14's case: build has just appended the last key, which was pushed several times
\* after another key.
C14_Witness ==
  /\ phase = "built"
  /\ last_op.op = "build"
  /\ DistinctPushed >= 2
  /\ Len(data) >= 3
  /\ data[Len(data) - 1] = Last(data)
  /\ Last(rs.spline_points) = Coordinate(Last(data), Len(data) - 1)
  /\ Len(rs.spline_points) = Len(pre.spline_points) + 1

\* The last call was push(x) with x equal to the previously pushed key.
DuplicatePush ==
  /\ last_op.op = "push"
  /\ phase = "building"
  /\ pre.num_points >= 1
  /\ last_op.x = pre.prev_x

\* C15 (duplicate push frame): a push of the previously pushed key increases num_points
\* and prev_y by 1 and leaves spline_points, radix_table, prev_prefix, distinct,
\* prev_point, upper_limit and lower_limit unchanged; distinct is always the number of
\* distinct keys pushed so far, and prev_y = num_points - 1 after every push.
C15_DuplicatePushFrame ==
  /\ DuplicatePush =>
       /\ builder.num_points = pre.num_points + 1
       /\ builder.prev_y = pre.prev_y + 1
       /\ builder.spline_points = pre.spline_points
       /\ builder.radix_table = pre.radix_table
       /\ builder.prev_prefix = pre.prev_prefix
       /\ builder.distinct = pre.distinct
       /\ builder.prev_point = pre.prev_point
       /\ builder.upper_limit = pre.upper_limit
       /\ builder.lower_limit = pre.lower_limit
  /\ builder.distinct = DistinctPushed
  /\ builder.num_points = Len(data)
  /\ builder.num_points >= 1 => builder.prev_y = builder.num_points - 1

\* C15's case: a key was pushed again while a cone was open.
C15_Witness ==
  /\ DuplicatePush
  /\ pre.distinct >= 3
  /\ pre.upper_limit # pre.lower_limit
  /\ builder.num_points = pre.num_points + 1

\* The smallest index idx with spline_points[idx].x >= key, len(spline_points) when
\* there is none: the knots are strictly increasing in x (C10), so it is the number
\* of knots with x < key.
FirstKnotAtOrAfter(r, key) ==
  IF \E i \in 0..(Len(r.spline_points) - 1) : At(r.spline_points, i).x >= key
  THEN CHOOSE i \in 0..(Len(r.spline_points) - 1) :
         /\ At(r.spline_points, i).x >= key
         /\ \A j \in 0..(i - 1) : At(r.spline_points, j).x < key
  ELSE Len(r.spline_points)

InnerKeys(r) == {key \in QueryKeys : r.min < key /\ key < r.max}

\* C16 (segment lookup on built indexes): for every non-empty built index and every
\* key with min < key < max, spline_segment(key) returns the smallest idx with
\* spline_points[idx].x >= key, len(spline_points) when there is none; so when
\* 0 < idx < len, spline_points[idx-1].x < key <= spline_points[idx].x.
C16_SegmentLookup ==
  BuiltNonEmpty =>
    \A key \in InnerKeys(rs) :
      /\ ~spline_segment_panics(rs, key)
      /\ spline_segment(rs, key) = FirstKnotAtOrAfter(rs, key)
      /\ LET idx == spline_segment(rs, key)
         IN  (0 < idx /\ idx < Len(rs.spline_points)) =>
               /\ At(rs.spline_points, idx - 1).x < key
               /\ key <= At(rs.spline_points, idx).x

\* C16's case: a key strictly between min and max was looked up and its segment is
\* between two knots, neither the first nor the last pair.
C16_Witness ==
  /\ Queried
  /\ ~q.panicked
  /\ q.key \in InnerKeys(rs)
  /\ Len(rs.spline_points) >= 3
  /\ spline_segment(rs, q.key) = 1
  /\ At(rs.spline_points, 0).x < q.key
  /\ q.key < At(rs.spline_points, 1).x

\* ------------------------------------- index states with a radix shift
\* The data-model invariants of an index: knots strictly increasing, radix_table[p]
\* the index of the first knot with prefix >= p.
DataModelInvariants(r) ==
  /\ StrictlyMonotone(r.spline_points)
  /\ Len(r.radix_table) = 2 + Shr(r.max - r.min, r.shift_bits)
  /\ \A p \in 0..(Len(r.radix_table) - 1) : At(r.radix_table, p) = KnotsBelow(r, p)
  /\ r.num_points = Len(r.spline_points)

BucketWidth == Pow2(SegmentShift)

\* An index over [0, last key] with shift_bits = SegmentShift: low knots at the keys
\* 0 .. low-1 of bucket 0 and n knots at BucketWidth + stride * j in bucket 1; every
\* key is a knot and its y is its rank.
SegmentIndex(low, n, stride) ==
  [ min |-> 0, max |-> BucketWidth + stride * (n - 1), shift_bits |-> SegmentShift,
    max_error |-> 1, num_points |-> low + n,
    radix_table |-> <<0, low, low + n>>,
    spline_points |->
      [i \in 1..(low + n) |->
         IF i <= low THEN Coordinate(i - 1, i - 1)
         ELSE Coordinate(BucketWidth + stride * (i - 1 - low), i - 1)] ]

SegmentIndexes ==
  {SegmentIndex(low, n, stride) :
     low \in 0..MaxLow, n \in (LINEAR_THRESH - 1)..(LINEAR_THRESH + MaxExtra),
     stride \in 1..2}

SegmentKeys == 1..(2 * BucketWidth - 1)

InitSegment ==
  /\ rs \in {r \in SegmentIndexes : r.max < 2 * BucketWidth /\ DataModelInvariants(r)}
  /\ builder = New(0, 0)
  /\ phase = "built"
  /\ data = [i \in 1..Len(rs.spline_points) |-> rs.spline_points[i].x]
  /\ last_op = NoOp
  /\ q = NoQuery
  /\ pre = builder
  /\ wide = NewShape(0, 0)

NextSegment == \E key \in SegmentKeys : Query(key)

SpecSegment == InitSegment /\ [][NextSegment]_vars

\* The bucket of a key
BucketBegin(r, key) == At(r.radix_table, prefix_of(r, key))
BucketEnd(r, key) == At(r.radix_table, prefix_of(r, key) + 1)

\* The last call was search_bound(key) with min < key < max and a bucket of at least
\* LINEAR_THRESH knots.
BinarySearched ==
  /\ last_op.op = "search_bound"
  /\ rs.min < q.key
  /\ q.key < rs.max
  /\ BucketEnd(rs, q.key) - BucketBegin(rs, q.key) >= LINEAR_THRESH

IncKeys == 0..MaxIncKey

\* Builder::new(a, b) over a range that leaves room below the first key or above the
\* last key, or neither.
InitIncreasing ==
  /\ \E a \in 0..1, b \in (MaxIncKey - 1)..MaxIncKey : builder = New(a, b)
  /\ rs = DefaultRadixSpline
  /\ phase = "building"
  /\ data = << >>
  /\ last_op = NoOp
  /\ q = NoQuery
  /\ pre = builder
  /\ wide = NewShape(0, 0)

\* Callers that keep the preconditions of push and never push a key twice.
NextIncreasing ==
  \/ \E err \in Errors : WithError(err)
  \/ \E x \in IncKeys :
       /\ PushPre(builder, x)
       /\ builder.num_points = 0 \/ builder.prev_x < x
       /\ Push(x)
  \/ Build
  \/ \E key \in IncKeys : Query(key)

SpecIncreasing == InitIncreasing /\ [][NextIncreasing]_vars

StrictlyIncreasingData == \A i \in 1..(Len(data) - 1) : data[i] < data[i + 1]

\* C18 (error bound on strictly increasing keys): when the pushed keys are strictly
\* increasing, with any declared min <= first key and max >= last key and an integer
\* max_error >= 1, get_estimated_position(key) of a pushed key of rank r returns and
\* is within max_error of r.
C18_ErrorBoundNoDuplicates ==
  (Queried /\ StrictlyIncreasingData /\ Ranks(q.key) # {}) =>
    /\ ~q.panicked
    /\ \A r \in Ranks(q.key) : RatWithin(q.est, r, rs.max_error)

\* C18's case: a pushed key strictly inside a segment that starts at a knot the cone
\* emitted was looked up, in an index declared wider than its last key.
C18_Witness ==
  /\ Queried
  /\ ~q.panicked
  /\ StrictlyIncreasingData
  /\ Ranks(q.key) # {}
  /\ Len(rs.spline_points) >= 3
  /\ data[Len(data)] < rs.max
  /\ \A i \in 1..Len(rs.spline_points) : rs.spline_points[i].x # q.key
  /\ rs.spline_points[2].x < q.key

\* The number of knots in bucket p of an index
BucketSize(r, p) == At(r.radix_table, p + 1) - At(r.radix_table, p)

=============================================================================
